---- MODULE Spec2Model ----
(***************************************************************************)
(* ChunkIO: a chunk framing codec (ChunkIOProto, src/src/lib.rs) laid over *)
(* a byte transport.  One link is modelled: encode appends frames to the   *)
(* write buffer dst, the transport carries bytes in order and arbitrarily  *)
(* fragmented into the accumulation buffer src, decode takes frames off    *)
(* the front of src.  current_index is the codec state (send, receive).    *)
(*                                                                         *)
(* A u64 is kept as four 16-bit limbs, most significant first, so that the *)
(* whole 64-bit range is representable and to_be_bytes / from_be_bytes are *)
(* real conversions.  Rust's 0-based indices and half-open ranges are kept *)
(* through At and Slice.                                                   *)
(***************************************************************************)
EXTENDS Integers, Sequences, FiniteSets, TLC

VARIABLES current_index, dst, src, stream, sent, got, failed, ret

vars == <<current_index, dst, src, stream, sent, got, failed, ret>>

----------------------------------------------------------------------------
(* Bounds of the model *)

\* number of chunks one behaviour encodes
MaxChunks == 2

\* most bytes the transport carries in one step; a longer transfer is a
\* run of shorter ones with no decode in between
MaxFrag == 3

----------------------------------------------------------------------------
(* u64 arithmetic and byte conversions *)

Limb == 65536

\* `n as u64` for a value that fits a machine int of the model
U64(n) == <<0, 0, n \div Limb, n % Limb>>

\* a + b on u64, wrapping modulo 2^64
U64Add(a, b) ==
  LET s4 == a[4] + b[4]
      s3 == a[3] + b[3] + (s4 \div Limb)
      s2 == a[2] + b[2] + (s3 \div Limb)
      s1 == a[1] + b[1] + (s2 \div Limb)
  IN  <<s1 % Limb, s2 % Limb, s3 % Limb, s4 % Limb>>

\* a < b on u64
U64Lt(a, b) ==
  \E i \in 1..4 : a[i] < b[i] /\ \A j \in 1..(i - 1) : a[j] = b[j]

\* `x as usize` for a value known to be below 2^31
U64ToInt(a) == a[3] * Limb + a[4]

\* u64::to_be_bytes: the eight bytes, most significant first
to_be_bytes(a) ==
  <<a[1] \div 256, a[1] % 256, a[2] \div 256, a[2] % 256,
    a[3] \div 256, a[3] % 256, a[4] \div 256, a[4] % 256>>

\* uN::from_be_bytes(b) as u64, for an array b of 1, 2, 4 or 8 bytes
from_be_bytes(b) ==
  LET p == [i \in 1..(8 - Len(b)) |-> 0] \o b
  IN  <<p[1] * 256 + p[2], p[3] * 256 + p[4],
        p[5] * 256 + p[6], p[7] * 256 + p[8]>>

\* .skip_while(|x| *x == 0)
RECURSIVE skip_while_zero(_)
skip_while_zero(s) ==
  IF s = <<>> \/ s[1] # 0 THEN s ELSE skip_while_zero(Tail(s))

\* s[i] with Rust's 0-based index
At(s, i) == s[i + 1]

\* s[a..b] with Rust's 0-based half-open range
Slice(s, a, b) == SubSeq(s, a + 1, b)

\* <[u8; n]>::try_from(slice): succeeds only when the slice has n bytes
try_into(slice, n) ==
  IF Len(slice) = n THEN [ok |-> TRUE, val |-> slice]
                    ELSE [ok |-> FALSE, val |-> <<>>]

----------------------------------------------------------------------------
(* Encoder *)

\* encode writing the length field before the offset field
encode_length_first(item, buf, cur) ==
  LET index  == skip_while_zero(to_be_bytes(cur[1]))
      length == skip_while_zero(to_be_bytes(U64(Len(item))))
  IN  [dst |-> buf \o <<((Len(index) * 16) % 256) + Len(length)>>
                   \o length \o index \o item,
       current_index |-> <<U64Add(cur[1], U64(Len(item))), cur[2]>>]

\* encode taking the length field from item.len() + 1
encode_length_plus_one(item, buf, cur) ==
  LET index  == skip_while_zero(to_be_bytes(cur[1]))
      length == skip_while_zero(to_be_bytes(U64(Len(item) + 1)))
  IN  [dst |-> buf \o <<((Len(index) * 16) % 256) + Len(length)>>
                   \o index \o length \o item,
       current_index |-> <<U64Add(cur[1], U64(Len(item))), cur[2]>>]

\* encode advancing the send index by the bytes of the whole frame
encode_counts_frame(item, buf, cur) ==
  LET index  == skip_while_zero(to_be_bytes(cur[1]))
      length == skip_while_zero(to_be_bytes(U64(Len(item))))
  IN  [dst |-> buf \o <<((Len(index) * 16) % 256) + Len(length)>>
                   \o index \o length \o item,
       current_index |->
         <<U64Add(cur[1], U64(1 + Len(index) + Len(length) + Len(item))),
           cur[2]>>]

\* ChunkIOProto::encode(item, dst): the new dst and current_index
encode(item, buf, cur) ==
  LET index  == skip_while_zero(to_be_bytes(cur[1]))
      length == skip_while_zero(to_be_bytes(U64(Len(item))))
  IN  [dst |-> buf \o <<((Len(index) * 16) % 256) + Len(length)>>
                   \o index \o length \o item,
       current_index |-> <<U64Add(cur[1], U64(Len(item))), cur[2]>>]

----------------------------------------------------------------------------
(* Decoder *)

Ok(v) == [ok |-> TRUE, val |-> v]

ParseErr == [ok |-> FALSE, val |-> U64(0)]

\* the index match reading only the last byte of a two-byte offset
parse_index_low_byte(buf, index_pointer) ==
  CASE index_pointer = 0 -> Ok(U64(0))
    [] index_pointer = 1 -> Ok(from_be_bytes(<<At(buf, 1)>>))
    [] index_pointer = 2 -> Ok(from_be_bytes(<<At(buf, 2)>>))
    [] OTHER -> ParseErr

\* the `let index = match index_pointer` expression
parse_index(buf, index_pointer) ==
  CASE index_pointer = 0 -> Ok(U64(0))
    [] index_pointer = 1 -> Ok(from_be_bytes(<<At(buf, 1)>>))
    [] index_pointer = 2 -> Ok(from_be_bytes(<<At(buf, 1), At(buf, 2)>>))
    [] index_pointer \in 3..4 ->
         LET a == try_into(Slice(buf, 1, index_pointer), 4)
         IN  IF a.ok THEN Ok(from_be_bytes(a.val)) ELSE ParseErr
    [] index_pointer \in 5..8 ->
         LET a == try_into(Slice(buf, 1, index_pointer), 8)
         IN  IF a.ok THEN Ok(from_be_bytes(a.val)) ELSE ParseErr
    [] OTHER -> ParseErr

\* the `let length = match len_pointer` expression
parse_length(buf, index_pointer, len_pointer) ==
  CASE len_pointer = 1 -> Ok(from_be_bytes(<<At(buf, 1 + index_pointer)>>))
    [] len_pointer = 2 ->
         Ok(from_be_bytes(<<At(buf, 1 + index_pointer),
                            At(buf, 2 + index_pointer)>>))
    [] len_pointer \in 3..4 ->
         LET a == try_into(Slice(buf, 1 + index_pointer,
                                 index_pointer + len_pointer), 4)
         IN  IF a.ok THEN Ok(from_be_bytes(a.val)) ELSE ParseErr
    [] len_pointer \in 5..8 ->
         LET a == try_into(Slice(buf, 1 + index_pointer,
                                 index_pointer + len_pointer), 8)
         IN  IF a.ok THEN Ok(from_be_bytes(a.val)) ELSE ParseErr
    [] OTHER -> ParseErr

\* an early return that drops the first byte of the buffer when it is an
\* error, to look for the next header
Unchanged_skip_on_error(kind, buf, cur) ==
  [kind |-> kind, item |-> <<>>,
   src |-> IF kind = "None" THEN buf ELSE Tail(buf),
   current_index |-> cur]

\* a result of decode that leaves buffer and codec as they were
Unchanged(kind, buf, cur) ==
  [kind |-> kind, item |-> <<>>, src |-> buf, current_index |-> cur]

\* the `if src.len() < header + length` statement that ends decode, hdr
\* being index_pointer + len_pointer + 1; with the payload short, advance
\* first: the header is dropped and Ok(None) returned
take_frame_advance_first(buf, cur, hdr, length) ==
  IF U64Lt(U64(Len(buf)), U64Add(U64(hdr), length))
  THEN [kind |-> "None", item |-> <<>>, src |-> Slice(buf, hdr, Len(buf)),
        current_index |-> cur]
  ELSE LET n == U64ToInt(length)
       IN  [kind |-> "Some",
            item |-> Slice(buf, hdr, hdr + n),
            src  |-> Slice(buf, hdr + n, Len(buf)),
            current_index |-> <<cur[1], U64Add(cur[2], length)>>]

\* the same statement, advancing by one byte less than the header
take_frame_short_advance(buf, cur, hdr, length) ==
  IF U64Lt(U64(Len(buf)), U64Add(U64(hdr), length))
  THEN Unchanged("None", buf, cur)
  ELSE LET n == U64ToInt(length)
       IN  [kind |-> "Some",
            item |-> Slice(buf, hdr - 1, hdr - 1 + n),
            src  |-> Slice(buf, hdr - 1 + n, Len(buf)),
            current_index |-> <<cur[1], U64Add(cur[2], length)>>]

\* the same statement, adding header and payload to the receive index
take_frame_counts_header(buf, cur, hdr, length) ==
  IF U64Lt(U64(Len(buf)), U64Add(U64(hdr), length))
  THEN Unchanged("None", buf, cur)
  ELSE LET n == U64ToInt(length)
       IN  [kind |-> "Some",
            item |-> Slice(buf, hdr, hdr + n),
            src  |-> Slice(buf, hdr + n, Len(buf)),
            current_index |->
              <<cur[1], U64Add(cur[2], U64Add(U64(hdr), length))>>]

\* the `if src.len() < header + length` statement that ends decode, hdr
\* being index_pointer + len_pointer + 1: Ok(None) while the payload is
\* short, else advance(hdr), current_index.1 += length, split_to(length)
take_frame(buf, cur, hdr, length) ==
  IF U64Lt(U64(Len(buf)), U64Add(U64(hdr), length))
  THEN Unchanged("None", buf, cur)
  ELSE LET n == U64ToInt(length)
       IN  [kind |-> "Some",
            item |-> Slice(buf, hdr, hdr + n),
            src  |-> Slice(buf, hdr + n, Len(buf)),
            current_index |-> <<cur[1], U64Add(cur[2], length)>>]

\* the header check without its `len_pointer == 0` disjunct
invalid_header_no_zero(index_pointer, len_pointer) ==
  index_pointer > 8 \/ len_pointer > 8

\* `index_pointer > 8 || len_pointer > 8 || len_pointer == 0`
invalid_header(index_pointer, len_pointer) ==
  index_pointer > 8 \/ len_pointer > 8 \/ len_pointer = 0

\* ChunkIOProto::decode(src): "None" is Ok(None), "Some" is Ok(Some(item)),
\* the other kinds are the Err variants
decode(buf, cur) ==
  IF Len(buf) < 2 THEN Unchanged("None", buf, cur)
  ELSE
    LET index_pointer == At(buf, 0) \div 16
        len_pointer   == At(buf, 0) % 16
    IN
    IF invalid_header(index_pointer, len_pointer)
    THEN Unchanged("InvalidChunk", buf, cur)
    ELSE IF Len(buf) < len_pointer + index_pointer + 1
    THEN Unchanged("None", buf, cur)
    ELSE
      LET index == parse_index(buf, index_pointer) IN
      IF ~index.ok THEN Unchanged("InvalidChunk", buf, cur)
      ELSE IF cur[2] # index.val THEN Unchanged("OutOfOrder", buf, cur)
      ELSE
        LET length == parse_length(buf, index_pointer, len_pointer) IN
        IF ~length.ok THEN Unchanged("InvalidChunk", buf, cur)
        ELSE take_frame(buf, cur, index_pointer + len_pointer + 1, length.val)

\* the decode accesses without the `src.len() < header` return
decode_accesses_no_header_check(buf, cur) ==
  IF Len(buf) < 2 THEN {}
  ELSE
    LET index_pointer == At(buf, 0) \div 16
        len_pointer   == At(buf, 0) % 16
    IN
    {<<0, 1>>} \cup
    IF invalid_header(index_pointer, len_pointer) THEN {}
    ELSE
      (CASE index_pointer = 0 -> {}
         [] index_pointer = 1 -> {<<1, 2>>}
         [] index_pointer = 2 -> {<<1, 2>>, <<2, 3>>}
         [] OTHER -> {<<1, index_pointer>>})
      \cup
      (CASE len_pointer = 1 -> {<<1 + index_pointer, 2 + index_pointer>>}
         [] len_pointer = 2 -> {<<1 + index_pointer, 2 + index_pointer>>,
                                <<2 + index_pointer, 3 + index_pointer>>}
         [] OTHER -> {<<1 + index_pointer, index_pointer + len_pointer>>})

\* the byte ranges of src, 0-based and half-open, that one call of decode
\* evaluates: src[i] is <<i, i + 1>>, src[a..b] is <<a, b>>, advance(n)
\* and split_to(n) are <<0, n>> of the buffer they are applied to, here
\* given as ranges of the buffer the call started with
decode_accesses(buf, cur) ==
  IF Len(buf) < 2 THEN {}
  ELSE
    LET index_pointer == At(buf, 0) \div 16
        len_pointer   == At(buf, 0) % 16
    IN
    {<<0, 1>>} \cup
    IF invalid_header(index_pointer, len_pointer) THEN {}
    ELSE IF Len(buf) < len_pointer + index_pointer + 1 THEN {}
    ELSE
      (CASE index_pointer = 0 -> {}
         [] index_pointer = 1 -> {<<1, 2>>}
         [] index_pointer = 2 -> {<<1, 2>>, <<2, 3>>}
         [] OTHER -> {<<1, index_pointer>>})
      \cup
      LET index == parse_index(buf, index_pointer) IN
      IF ~index.ok \/ cur[2] # index.val THEN {}
      ELSE
        (CASE len_pointer = 1 -> {<<1 + index_pointer, 2 + index_pointer>>}
           [] len_pointer = 2 -> {<<1 + index_pointer, 2 + index_pointer>>,
                                  <<2 + index_pointer, 3 + index_pointer>>}
           [] OTHER -> {<<1 + index_pointer, index_pointer + len_pointer>>})
        \cup
        LET length == parse_length(buf, index_pointer, len_pointer)
            hdr    == index_pointer + len_pointer + 1
        IN
        IF ~length.ok \/ U64Lt(U64(Len(buf)), U64Add(U64(hdr), length.val))
        THEN {}
        ELSE {<<0, hdr>>, <<hdr, hdr + U64ToInt(length.val)>>}

----------------------------------------------------------------------------
(* The link: one encoder, an ordered transport, one decoder *)

\* n bytes of payload
Fill(n) == [i \in 1..n |-> 0]

\* the chunks a caller sends
Items == {<<>>, <<65>>, <<66, 67>>, Fill(255), Fill(256)}

NoRet == [op |-> "new", kind |-> "", item |-> <<>>]

\* ChunkIO::new: Framed::new(io, Default::default())
Init ==
  /\ current_index = <<U64(0), U64(0)>>
  /\ dst = <<>>
  /\ src = <<>>
  /\ stream = <<>>
  /\ sent = <<>>
  /\ got = <<>>
  /\ failed = "NoError"
  /\ ret = NoRet

\* start_send(item): the codec encodes item into the write buffer
Encode(item) ==
  /\ Len(sent) < MaxChunks
  /\ LET r == encode(item, dst, current_index)
     IN  /\ dst' = r.dst
         /\ current_index' = r.current_index
         /\ stream' = stream \o SubSeq(r.dst, Len(dst) + 1, Len(r.dst))
  /\ sent' = Append(sent, item)
  /\ ret' = [op |-> "encode", kind |-> "Ok", item |-> <<>>]
  /\ UNCHANGED <<src, got, failed>>

\* the transport carries the next k bytes of the write buffer, in order,
\* to the reader, which appends them to its accumulation buffer
Transfer(k) ==
  /\ k \in 1..MaxFrag
  /\ k <= Len(dst)
  /\ src' = src \o SubSeq(dst, 1, k)
  /\ dst' = SubSeq(dst, k + 1, Len(dst))
  /\ ret' = [op |-> "transfer", kind |-> "Ok", item |-> <<>>]
  /\ UNCHANGED <<current_index, stream, sent, got, failed>>

\* poll_next: one call of the codec's decode on the accumulation buffer
Decode ==
  LET r == decode(src, current_index)
  IN  /\ src' = r.src
      /\ current_index' = r.current_index
      /\ got' = IF r.kind = "Some" THEN Append(got, r.item) ELSE got
      /\ failed' = IF failed = "NoError" /\ r.kind \in {"InvalidChunk", "OutOfOrder"}
                   THEN r.kind ELSE failed
      /\ ret' = [op |-> "decode", kind |-> r.kind, item |-> r.item]
      /\ UNCHANGED <<dst, stream, sent>>

Next ==
  \/ \E item \in Items : Encode(item)
  \/ \E k \in 1..MaxFrag : Transfer(k)
  \/ Decode

Spec == Init /\ [][Next]_vars

----------------------------------------------------------------------------
(* The decoder on untrusted input: the transport delivers arbitrary bytes  *)
(* to a codec that has already received some chunks                        *)

\* the w low-order bytes of v, most significant first (w up to 15)
FieldBytes(v, w) ==
  LET b == [i \in 1..8 |-> 0] \o to_be_bytes(v)
  IN  SubSeq(b, 17 - w, 16)

\* header byte h, then an offset field and a length field of the widths h
\* announces, then n payload bytes
RawFrame(h, off, n) ==
  <<h>> \o FieldBytes(off, h \div 16) \o FieldBytes(U64(n), h % 16)
        \o [i \in 1..n |-> 64 + i]

ValidHeaders == {h \in 0..255 : h \div 16 <= 8 /\ h % 16 \in 1..8}

InvalidHeaders == (0..255) \ ValidHeaders

\* receive-cursor values a codec reaches: 65535 + 1 after two chunks
RecvCursors == {U64(0), U64(1), U64(256), U64(65536)}

\* a frame of one byte of payload whose offset no cursor of the model equals
StrayFrame == <<17, 7, 1, 65>>

Inputs ==
  {<<h>> \o t : h \in InvalidHeaders, t \in {<<0>>, StrayFrame}}
  \cup {RawFrame(h, off, n) \o StrayFrame :
          h \in ValidHeaders, off \in RecvCursors, n \in {0, 2}}

InitDecode ==
  /\ current_index \in {<<U64(0), r>> : r \in RecvCursors}
  /\ dst \in Inputs
  /\ stream = dst
  /\ src = <<>>
  /\ sent = <<>>
  /\ got = <<>>
  /\ failed = "NoError"
  /\ ret = NoRet

NextDecode ==
  \/ \E k \in 1..MaxFrag : Transfer(k)
  \/ Decode

SpecDecode == InitDecode /\ [][NextDecode]_vars

----------------------------------------------------------------------------
(* The encoder at any send-cursor, appending to a buffer that may already  *)
(* hold bytes                                                              *)

\* send-cursor values around the width boundaries of the offset field
SendCursors ==
  {U64(0), U64(1), U64(254), U64(255), U64(256), U64(65535), U64(65536),
   <<0, 0, 255, 65535>>, <<0, 0, 256, 0>>, <<0, 0, 65535, 65535>>,
   <<0, 1, 0, 0>>, <<0, 256, 0, 0>>, <<1, 0, 0, 0>>, <<256, 0, 0, 0>>}

InitEncode ==
  /\ current_index \in {<<c, U64(0)>> : c \in SendCursors}
  /\ dst \in {<<>>, <<1, 1, 65>>}
  /\ stream = <<>>
  /\ src = <<>>
  /\ sent = <<>>
  /\ got = <<>>
  /\ failed = "NoError"
  /\ ret = NoRet

NextEncode == \E item \in Items : Encode(item)

SpecEncode == InitEncode /\ [][NextEncode]_vars

----------------------------------------------------------------------------
(* Vocabulary of the properties, stated on bytes and independent of the    *)
(* codec's own operators                                                   *)

IsPrefix(a, b) == Len(a) <= Len(b) /\ SubSeq(b, 1, Len(a)) = a

\* byte k of the u64 v, k = 0 being the least significant
ByteOf(v, k) ==
  LET l == v[4 - (k \div 2)]
  IN  IF k % 2 = 0 THEN l % 256 ELSE l \div 256

\* field is the big-endian representation of v in Len(field) bytes
FieldIs(field, v) ==
  /\ \A j \in 1..Len(field) :
        field[j] = IF Len(field) - j <= 7 THEN ByteOf(v, Len(field) - j) ELSE 0
  /\ \A k \in Len(field)..7 : ByteOf(v, k) = 0

\* field is the big-endian representation of v with no leading zero byte
MinimalFieldIs(field, v) ==
  FieldIs(field, v) /\ (field = <<>> \/ field[1] # 0)

\* the value of a big-endian field is below 65536
SmallField(field) == \A j \in 1..(Len(field) - 2) : field[j] = 0

\* the value of a big-endian field below 65536
FieldInt(field) ==
  (IF Len(field) >= 2 THEN field[Len(field) - 1] * 256 ELSE 0)
  + field[Len(field)]

\* widths announced by the first byte of the accumulation buffer
IW == src[1] \div 16

LW == src[1] % 16

\* the accumulation buffer starts with a complete fixed-width header whose
\* widths are in range
CompleteHeader ==
  /\ Len(src) >= 2
  /\ IW \in 0..8
  /\ LW \in 1..8
  /\ Len(src) >= 1 + IW + LW

OffsetField == SubSeq(src, 2, 1 + IW)

LengthField == SubSeq(src, 2 + IW, 1 + IW + LW)

\* the bytes the step has appended to the write buffer
Appended == SubSeq(dst', Len(dst) + 1, Len(dst'))

\* decoding buf to the end in one go: the chunks and the first error
RECURSIVE decode_all(_, _)
decode_all(buf, cur) ==
  LET r == decode(buf, cur)
  IN  IF r.kind = "Some"
      THEN LET rest == decode_all(r.src, r.current_index)
           IN  [items |-> <<r.item>> \o rest.items, err |-> rest.err]
      ELSE [items |-> <<>>,
            err |-> IF r.kind = "None" THEN "NoError" ELSE r.kind]

----------------------------------------------------------------------------
(* Properties *)

\* C1: round trip.  Once every encoded byte has reached the accumulation
\* buffer and decode has stopped returning chunks, the chunks decoded are
\* exactly the chunks encoded, and no decode has failed.
RoundTrip ==
  (dst = <<>> /\ ret.op = "decode" /\ ret.kind # "Some")
    => (got = sent /\ failed = "NoError")

\* C2: partial-delivery invariance.  The outcomes of decoding the stream
\* piece by piece (the chunks so far and the first error) are always a
\* prefix of the outcomes of decoding the whole stream at once, and are the
\* same outcomes once every byte has arrived and decode has asked for more
\* data or failed.
PartialDeliveryInvariance ==
  LET whole == decode_all(stream, <<U64(0), U64(0)>>)
  IN  /\ IsPrefix(got, whole.items)
      /\ failed # "NoError" => (got = whole.items /\ failed = whole.err)
      /\ (dst = <<>> /\ ret.op = "decode" /\ ret.kind = "None")
           => (got = whole.items /\ failed = whole.err)

\* C2 witness: a chunk was decoded, and decode was then tried on the first
\* bytes of the next frame while the rest was still in transit.
PartialDeliverySeen ==
  /\ Len(got) >= 1
  /\ ret.op = "decode" /\ ret.kind = "None"
  /\ Len(src) >= 2
  /\ dst # <<>>

\* C3: out-of-order detection.  A decode step on a complete header with
\* widths in range whose offset field differs from the receive-cursor
\* fails with OutOfOrder and returns no chunk.
OutOfOrderDetected ==
  [][(ret'.op = "decode" /\ CompleteHeader
        /\ ~FieldIs(OffsetField, current_index[2]))
       => (ret'.kind = "OutOfOrder" /\ got' = got)]_vars

\* C4: invalid header rejection.  A decode step on a buffer of at least 2
\* bytes whose first byte has a high nibble above 8, a low nibble above 8
\* or a low nibble of 0 fails with InvalidChunk and returns no chunk.
InvalidHeaderRejected ==
  [][(ret'.op = "decode" /\ Len(src) >= 2
        /\ (IW \in 9..15 \/ LW \in 9..15 \/ LW = 0))
       => (ret'.kind = "InvalidChunk" /\ got' = got)]_vars

\* C4 witness: decode has just failed with InvalidChunk on a header whose
\* high nibble is above 8, at a receive-cursor that is not 0.
InvalidHeaderSeen ==
  /\ ret.op = "decode" /\ ret.kind = "InvalidChunk"
  /\ Len(src) >= 2 /\ IW \in 9..15
  /\ current_index[2] # U64(0)

\* C5: every header byte written by encode has a low nibble in 1..8.
EncodedLengthWidthNonZero ==
  [][ret'.op = "encode" => (Appended[1] % 16) \in 1..8]_vars

\* C6: end-to-end ordering.  The chunks decoded so far are a prefix of the
\* chunks encoded so far.
DeliveredIsPrefix == IsPrefix(got, sent)

\* C6 witness: two chunks were delivered, the second of 256 bytes.
TwoDelivered == Len(got) = 2 /\ Len(got[2]) = 256

\* C7: encode wire format.  An encode step keeps the bytes the write buffer
\* held and appends the header byte (iw << 4) | lw, the send-cursor in iw
\* big-endian bytes without leading zero, the chunk length in lw big-endian
\* bytes without leading zero, and the payload; on a fresh codec the chunk
\* "A" is appended as 01 01 41.
EncodeWireFormat ==
  [][ret'.op = "encode" =>
       LET item == sent'[Len(sent')]
           a    == Appended
       IN  /\ SubSeq(dst', 1, Len(dst)) = dst
           /\ Len(a) >= 1
           /\ LET iw == a[1] \div 16
                  lw == a[1] % 16
              IN  /\ iw \in 0..8 /\ lw \in 0..8
                  /\ Len(a) = 1 + iw + lw + Len(item)
                  /\ MinimalFieldIs(SubSeq(a, 2, 1 + iw), current_index[1])
                  /\ (iw = 0 <=> current_index[1] = U64(0))
                  /\ MinimalFieldIs(SubSeq(a, 2 + iw, 1 + iw + lw),
                                    U64(Len(item)))
                  /\ SubSeq(a, 2 + iw + lw, Len(a)) = item
           /\ (current_index[1] = U64(0) /\ item = <<65>>)
                => a = <<1, 1, 65>>]_vars

\* C7 witness: a chunk of 256 bytes was encoded at send-cursor 2^32 after
\* bytes the write buffer already held.
EncodedAtWideCursor ==
  /\ ret.op = "encode"
  /\ current_index[1] = <<0, 1, 0, 256>>
  /\ Len(sent) = 1
  /\ SubSeq(dst, 1, 3) = <<1, 1, 65>>
  /\ Len(dst) = 3 + 1 + 5 + 2 + 256

\* C8 as stated: a payload of exactly 255 bytes is encoded with
\* length_width 2.
Length255HasWidth2 ==
  [][(ret'.op = "encode" /\ Len(sent'[Len(sent')]) = 255)
       => Appended[1] % 16 = 2]_vars

\* C8 amended: a payload of exactly 255 bytes is encoded with length_width
\* 1, and a payload of exactly 256 bytes with length_width 2.
Length255HasWidth1 ==
  [][ret'.op = "encode" =>
       /\ Len(sent'[Len(sent')]) = 255 => Appended[1] % 16 = 1
       /\ Len(sent'[Len(sent')]) = 256 => Appended[1] % 16 = 2]_vars

\* C8 witness: a payload of 255 bytes was just encoded.
Encoded255 ==
  ret.op = "encode" /\ sent # <<>> /\ Len(sent[Len(sent)]) = 255

\* C9: decode success effect.  A decode step on a buffer that holds a whole
\* frame with widths in range and offset equal to the receive-cursor
\* removes the frame from the front of the buffer, returns its payload,
\* keeps the later bytes and advances the receive-cursor by the length.
DecodeSuccessEffect ==
  [][(ret'.op = "decode" /\ CompleteHeader
        /\ FieldIs(OffsetField, current_index[2])
        /\ SmallField(LengthField)
        /\ Len(src) >= 1 + IW + LW + FieldInt(LengthField))
       => LET hdr == 1 + IW + LW
              n   == FieldInt(LengthField)
          IN  /\ ret'.kind = "Some"
              /\ ret'.item = SubSeq(src, hdr + 1, hdr + n)
              /\ got' = Append(got, ret'.item)
              /\ src' = SubSeq(src, hdr + n + 1, Len(src))
              /\ current_index'[2] = U64Add(current_index[2], U64(n))
              /\ current_index'[1] = current_index[1]]_vars

\* C10: need-more-data has no side effects.  A decode step that returns
\* need-more-data leaves the buffer and both cursors as they were, and a
\* decode of the buffer it leaves returns need-more-data again.
NeedMoreDataIsPure ==
  [][(ret'.op = "decode" /\ ret'.kind = "None")
       => /\ src' = src
          /\ current_index' = current_index
          /\ got' = got
          /\ decode(src', current_index').kind = "None"
          /\ \/ Len(src) < 2
             \/ Len(src) < 1 + IW + LW
             \/ Len(src) < 1 + IW + LW + FieldInt(LengthField)]_vars

\* C10 witness: decode has returned need-more-data on a buffer that holds a
\* complete header and one byte of a payload of two.
NeedMoreDataMidPayload ==
  /\ ret.op = "decode" /\ ret.kind = "None"
  /\ CompleteHeader
  /\ Len(src) = 1 + IW + LW + 1
  /\ FieldInt(LengthField) = 2

\* the total length of the chunks of a sequence
RECURSIVE SumLen(_)
SumLen(chunks) ==
  IF chunks = <<>> THEN 0 ELSE Len(chunks[1]) + SumLen(Tail(chunks))

DecodeErrors == {"InvalidChunk", "OutOfOrder"}

\* C11: cursor accounting.  Both cursors start at 0; after every step the
\* send-cursor is the total length of the chunks encoded and the
\* receive-cursor the total length of the chunks decoded; neither ever
\* decreases, an encode step keeps the receive-cursor and a decode step
\* keeps the send-cursor.
CursorAccounting ==
  /\ current_index = <<U64(0), U64(0)>>
  /\ [][/\ current_index'[1] = U64(SumLen(sent'))
        /\ current_index'[2] = U64(SumLen(got'))
        /\ ~U64Lt(current_index'[1], current_index[1])
        /\ ~U64Lt(current_index'[2], current_index[2])
        /\ ret'.op = "encode" => current_index'[2] = current_index[2]
        /\ ret'.op = "decode" => current_index'[1] = current_index[1]]_vars

\* C11 witness: after encodes and decodes on the one codec, 257 bytes of
\* payload were encoded in two chunks and the first chunk, of one byte, was
\* decoded.
CursorsApart ==
  /\ Len(sent) = 2 /\ Len(got) = 1
  /\ current_index = <<U64(257), U64(1)>>

\* C12: a decode failure is permanent.  A decode step that fails leaves the
\* buffer and the receive-cursor as they were, and once a decode has
\* failed every later decode step fails too, whatever bytes have been
\* appended, and no step adds a chunk.
FailureIsPermanent ==
  [][/\ (ret'.op = "decode" /\ ret'.kind \in DecodeErrors)
          => (src' = src /\ current_index' = current_index)
     /\ failed # "NoError"
          => /\ got' = got
             /\ failed' = failed
             /\ ret'.op = "decode" => ret'.kind \in DecodeErrors]_vars

\* C12 witness: decode failed with OutOfOrder on a header of 3 bytes, and
\* fails again after every byte that followed has been appended.
FailedAgainAfterAppend ==
  /\ failed = "OutOfOrder"
  /\ ret.op = "decode" /\ ret.kind = "OutOfOrder"
  /\ dst = <<>>
  /\ CompleteHeader
  /\ Len(src) > 1 + IW + LW + 2

\* C14: the field-parse failure is unreachable.  A decode step on a
\* complete header with widths in range does not fail with InvalidChunk.
FieldParseNeverFails ==
  [][(ret'.op = "decode" /\ CompleteHeader)
       => ret'.kind # "InvalidChunk"]_vars

\* C15: sequencing.  A decode step returns a chunk only on a complete
\* header whose offset field equals the receive-cursor the step started
\* with; a header without offset field only at receive-cursor 0.
ChunkOnlyAtCursor ==
  [][(ret'.op = "decode" /\ ret'.kind = "Some")
       => /\ CompleteHeader
          /\ FieldIs(OffsetField, current_index[2])
          /\ IW = 0 => current_index[2] = U64(0)]_vars

\* C15 witness: a chunk of two bytes was returned at receive-cursor 256.
ChunkAtCursor256 ==
  /\ ret.op = "decode" /\ ret.kind = "Some"
  /\ Len(ret.item) = 2
  /\ current_index[2] = U64(258)

\* C16: decode is memory-safe.  Every byte range a decode step evaluates
\* lies within the buffer the step started with, and the step returns
\* need-more-data, a chunk, InvalidChunk or OutOfOrder.
DecodeInBounds ==
  [][ret'.op = "decode" =>
       /\ \A r \in decode_accesses(src, current_index) :
             0 <= r[1] /\ r[1] <= r[2] /\ r[2] <= Len(src)
       /\ ret'.kind \in {"None", "Some"} \cup DecodeErrors]_vars

\* C16 witness: decode has failed on a header announcing offset and length
\* fields of 8 bytes each, all 17 bytes of the header being buffered.
WidestHeaderDecoded ==
  /\ ret.op = "decode" /\ ret.kind \in DecodeErrors
  /\ CompleteHeader
  /\ IW = 8 /\ LW = 8

\* C17: the receive-cursor never exceeds the send-cursor, and equals it
\* when every chunk encoded has been decoded.
ReceiveNotAheadOfSend ==
  /\ ~U64Lt(current_index[1], current_index[2])
  /\ got = sent => current_index[1] = current_index[2]

\* C17 witness: two chunks were encoded and both decoded, 258 bytes in all.
AllDecoded ==
  /\ Len(sent) = 2 /\ got = sent
  /\ current_index[2] = U64(258)

====
